---- MODULE Spec2Model ----
(***************************************************************************)
(* OllamaEmbedder (memmachine/common/embedder/ollama_embedder.py).         *)
(*                                                                         *)
(* The client is constructed from a configuration mapping and then serves  *)
(* embedding calls.  Each call is a coroutine: it runs atomically between  *)
(* its await points, and the only await at which the outside world acts is *)
(* the pending HTTP POST.  Two tasks, one per public entry point, may run  *)
(* calls on the same client at the same time.                              *)
(***************************************************************************)
EXTENDS Integers, Sequences, FiniteSets

VARIABLES
    config,      \* the mapping handed to __init__
    client,      \* the OllamaEmbedder object (its private fields)
    registered,  \* metrics registered with the factory: get_counter / get_summary
    pc,          \* per task: position of its call
    inputs,      \* per task: the argument of the call
    embeddings,  \* per task: the local list `embeddings`
    session,     \* per task: the aiohttp.ClientSession of the call
    requests,    \* per task: the POSTs issued so far, in order
    responses,   \* per task: what came back for each POST, in order
    outcome,     \* per task: what the caller got (value or exception)
    counter,     \* calls made on _request_counter.increment
    summary,     \* calls made on _latency_summary.observe
    raw,         \* list comprehension of _embed, alone: its argument
    cleaned      \* list comprehension of _embed, alone: its value

vars == <<config, client, registered, pc, inputs, embeddings, session,
          requests, responses, outcome, counter, summary, raw, cleaned>>

callVars == <<pc, inputs, embeddings, session, requests, responses, outcome,
              counter, summary>>

-----------------------------------------------------------------------------
(* Bounds *)

MaxInputs == 2   \* longest input list of a call
MaxLen == 2      \* longest text handed to the sanitizer

-----------------------------------------------------------------------------
(* Values *)

\* One task per public entry point: ingest_embed and search_embed.
Tasks == {"ingest", "search"}

Chars == {"a", "\n"}

\* Texts of the calls: the empty string and a text with a newline.
Texts == {<<>>, <<"a", "\n">>}

\* Texts of the sanitizer: every string over Chars up to MaxLen.
AllTexts == UNION {[1..n -> Chars] : n \in 0..MaxLen}

InputLists == UNION {[1..n -> Texts] : n \in 0..MaxInputs}

AllInputLists == UNION {[1..n -> AllTexts] : n \in 0..MaxInputs}

Vecs == {"v1", "v2"}

NoVec == "none"

DefaultModel == "nomic-embed-text"

DefaultBaseUrl == "http://ollama:11434"

NoLabels == {}

\* Configuration mappings; "unset" and has_labels = FALSE stand for a missing key.
Configs ==
    { [model |-> "unset", base_url |-> "unset", metrics_factory |-> "None",
       has_labels |-> FALSE, user_metrics_labels |-> NoLabels],
      [model |-> "custom-model", base_url |-> "http://host:1",
       metrics_factory |-> "MetricsFactory",
       has_labels |-> TRUE, user_metrics_labels |-> {<<"env", "prod">>}],
      [model |-> "unset", base_url |-> "unset",
       metrics_factory |-> "MetricsFactory",
       has_labels |-> FALSE, user_metrics_labels |-> NoLabels],
      [model |-> "unset", base_url |-> "unset",
       metrics_factory |-> "NotAFactory",
       has_labels |-> TRUE, user_metrics_labels |-> {<<"env", "prod">>}] }

\* What the network and the service can answer to one POST.
Responses ==
    {[net |-> "ok", status |-> 200, has_embedding |-> TRUE, embedding |-> v,
      body |-> "json"] : v \in Vecs}
    \cup
    { [net |-> "ok", status |-> 200, has_embedding |-> FALSE,
       embedding |-> NoVec, body |-> "json"],
      [net |-> "ok", status |-> 500, has_embedding |-> FALSE,
       embedding |-> NoVec, body |-> "internal error"],
      [net |-> "connect_error", status |-> 0, has_embedding |-> FALSE,
       embedding |-> NoVec, body |-> ""],
      [net |-> "timeout", status |-> 0, has_embedding |-> FALSE,
       embedding |-> NoVec, body |-> ""] }

NoExc == [type |-> "none", status |-> 0, text |-> ""]

NoOutcome == [kind |-> "none", value |-> <<>>, exc |-> NoExc]

-----------------------------------------------------------------------------
(* __init__ *)

\* isinstance(metrics_factory, MetricsFactory)
IsMetricsFactory(mf) == mf = "MetricsFactory"

\* metrics_factory is not None and not isinstance(...)
BadFactory(cfg) ==
    cfg.metrics_factory # "None" /\ ~IsMetricsFactory(cfg.metrics_factory)

\* config.get("model", "nomic-embed-text")
Model(cfg) == IF cfg.model = "unset" THEN DefaultModel ELSE cfg.model

\* config.get("base_url", "http://ollama:11434")
BaseUrl(cfg) == IF cfg.base_url = "unset" THEN DefaultBaseUrl ELSE cfg.base_url

\* f"{self._base_url}/api/embeddings"
Endpoint(cfg) == <<BaseUrl(cfg), "/api/embeddings">>

\* config.get("user_metrics_labels", {})
Labels(cfg) == IF cfg.has_labels THEN cfg.user_metrics_labels ELSE NoLabels

NoClient ==
    [state |-> "new", model |-> "", endpoint |-> <<>>,
     collect_metrics |-> FALSE, labels |-> NoLabels]

NewClientUnchecked(cfg) ==
    [state |-> "ready", model |-> Model(cfg), endpoint |-> Endpoint(cfg),
     collect_metrics |-> cfg.metrics_factory # "None",
     labels |-> IF cfg.metrics_factory # "None" THEN Labels(cfg) ELSE NoLabels]

\* The object __init__ leaves behind, or the TypeError it raises.
NewClient(cfg) ==
    IF BadFactory(cfg)
    THEN [NoClient EXCEPT !.state = "TypeError"]
    ELSE [state |-> "ready", model |-> Model(cfg), endpoint |-> Endpoint(cfg),
          collect_metrics |-> cfg.metrics_factory # "None",
          labels |-> IF cfg.metrics_factory # "None"
                     THEN Labels(cfg) ELSE NoLabels]

\* get_counter and get_summary, made only past the type check.
Registered(cfg) ==
    IF BadFactory(cfg) \/ cfg.metrics_factory = "None"
    THEN <<>>
    ELSE << <<"counter", "embedder_ollama_usage_requests", Labels(cfg)>>,
            <<"summary", "embedder_ollama_latency_seconds", Labels(cfg)>> >>

Construct ==
    /\ client.state = "new"
    /\ client' = NewClient(config)
    /\ registered' = Registered(config)
    /\ UNCHANGED <<config, callVars, raw, cleaned>>

-----------------------------------------------------------------------------
(* _embed: pure parts *)

CleanInputNoPlaceholder(text) ==
    [i \in 1..Len(text) |-> IF text[i] = "\n" THEN " " ELSE text[i]]

\* input.replace("\n", " ") if input else " "
CleanInput(text) ==
    IF text = <<>>
    THEN <<" ">>
    ELSE [i \in 1..Len(text) |-> IF text[i] = "\n" THEN " " ELSE text[i]]

\* cleaned_inputs = [... for input in inputs]
CleanInputs(ins) == [i \in 1..Len(ins) |-> CleanInput(ins[i])]

\* payload and destination of one POST
Request(c, prompt) ==
    [url |-> c.endpoint, model |-> c.model, prompt |-> prompt, timeout |-> 30]

AllRemainingRequests(c, ins, k) ==
    [j \in 1..(Len(ins) - k) |-> Request(c, CleanInputs(ins)[k + j])]

\* The POSTs the loop issues once k responses have been handled: the next one.
NextRequests(c, ins, k) ==
    IF k < Len(ins) THEN <<Request(c, CleanInputs(ins)[k + 1])>> ELSE <<>>

\* Body of the try block: the exception it raises, or the vector it appends.
TryBody(resp) ==
    IF resp.net = "connect_error"
    THEN [exc |-> [type |-> "ClientConnectorError", status |-> 0,
                   text |-> "Cannot connect to host"],
          embedding |-> NoVec]
    ELSE IF resp.net = "timeout"
    THEN [exc |-> [type |-> "TimeoutError", status |-> 0, text |-> ""],
          embedding |-> NoVec]
    ELSE IF resp.status = 200
    THEN IF resp.has_embedding
         THEN [exc |-> NoExc, embedding |-> resp.embedding]
         ELSE [exc |-> [type |-> "KeyError", status |-> 0,
                        text |-> "'embedding'"],
               embedding |-> NoVec]
    ELSE [exc |-> [type |-> "ClientError", status |-> resp.status,
                   text |-> resp.body],
          embedding |-> NoVec]

\* Subclasses of Exception; CancelledError derives from BaseException.
IsException(e) == e.type \notin {"none", "CancelledError"}

ExceptClauseSwallow(e) == NoExc

ExceptClauseClientErrorOnly(e) ==
    IF e.type \in {"ClientError", "ClientConnectorError"}
    THEN [type |-> "RuntimeError", status |-> e.status, text |-> e.text]
    ELSE e

\* except Exception as e: raise RuntimeError(f"...: {e}")
ExceptClause(e) ==
    IF IsException(e)
    THEN [type |-> "RuntimeError", status |-> e.status, text |-> e.text]
    ELSE e

StoreEmbeddingFront(embs, p, vec) == [embs EXCEPT ![p] = <<vec>> \o @]

StoreEmbeddingShared(embs, p, vec) ==
    [q \in DOMAIN embs |-> IF q = p \/ embs[q] # <<>>
                           THEN Append(embs[q], vec) ELSE embs[q]]

\* embeddings.append(result["embedding"]) on the call's own list
StoreEmbedding(embs, p, vec) == [embs EXCEPT ![p] = Append(@, vec)]

SessionOnCallEager(ins) == "open"

\* The session a call holds right after its entry: none on the empty path.
SessionOnCall(ins) == IF ins = <<>> THEN "none" ELSE "open"

SessionOnExitLeaky(e) == IF e = NoExc THEN "closed" ELSE "open"

\* async with aiohttp.ClientSession(): __aexit__ runs whatever leaves the block.
SessionOnExit(e) == "closed"

IncrementPerRequest(c, calls, ins) ==
    IF c.collect_metrics
    THEN calls \o [i \in 1..Len(ins) |-> [value |-> 1, labels |-> c.labels]]
    ELSE calls

\* self._request_counter.increment(value=len(inputs), labels=...)
Increment(c, calls, ins) ==
    IF c.collect_metrics
    THEN Append(calls, [value |-> Len(ins), labels |-> c.labels])
    ELSE calls

\* self._latency_summary.observe(value=end_time - start_time, labels=...)
Observe(c, calls) ==
    IF c.collect_metrics
    THEN Append(calls, [value |-> "elapsed", labels |-> c.labels])
    ELSE calls

-----------------------------------------------------------------------------
(* _embed: steps *)

\* ingest_embed / search_embed up to the first await on session.post
Call(p, ins) ==
    /\ client.state = "ready"
    /\ pc[p] = "idle"
    /\ inputs' = [inputs EXCEPT ![p] = ins]
    /\ session' = [session EXCEPT ![p] = SessionOnCall(ins)]
    /\ IF ins = <<>>
       THEN /\ pc' = [pc EXCEPT ![p] = "returned"]
            /\ outcome' = [outcome EXCEPT
                             ![p] = [kind |-> "value", value |-> <<>>,
                                     exc |-> NoExc]]
            /\ UNCHANGED requests
       ELSE /\ pc' = [pc EXCEPT ![p] = "awaiting"]
            /\ requests' = [requests EXCEPT ![p] = NextRequests(client, ins, 0)]
            /\ UNCHANGED outcome
    /\ UNCHANGED <<config, client, registered, embeddings, responses,
                   counter, summary, raw, cleaned>>

\* The pending POST completes: rest of the loop body, then either the next
\* POST, the except clause, or the code after the loop.
Receive(p, resp) ==
    /\ pc[p] = "awaiting"
    /\ Len(responses[p]) < Len(requests[p])
    /\ LET body == TryBody(resp)
           exc == ExceptClause(body.exc)
           handled == Len(responses[p]) + 1
           embs == IF body.exc = NoExc
                   THEN StoreEmbedding(embeddings, p, body.embedding)
                   ELSE embeddings
       IN /\ responses' = [responses EXCEPT ![p] = Append(@, resp)]
          /\ IF exc # NoExc
             THEN /\ pc' = [pc EXCEPT ![p] = "raised"]
                  /\ session' = [session EXCEPT ![p] = SessionOnExit(exc)]
                  /\ outcome' = [outcome EXCEPT
                                   ![p] = [kind |-> "error", value |-> <<>>,
                                           exc |-> exc]]
                  /\ embeddings' = [embs EXCEPT ![p] = <<>>]
                  /\ UNCHANGED <<requests, counter, summary>>
             ELSE IF handled < Len(inputs[p])
             THEN /\ embeddings' = embs
                  /\ requests' =
                        [requests EXCEPT
                           ![p] = @ \o NextRequests(client, inputs[p], handled)]
                  /\ UNCHANGED <<pc, session, outcome, counter, summary>>
             ELSE /\ pc' = [pc EXCEPT ![p] = "returned"]
                  /\ session' = [session EXCEPT ![p] = SessionOnExit(NoExc)]
                  /\ counter' = Increment(client, counter, inputs[p])
                  /\ summary' = Observe(client, summary)
                  /\ outcome' = [outcome EXCEPT
                                   ![p] = [kind |-> "value", value |-> embs[p],
                                           exc |-> NoExc]]
                  /\ embeddings' = [embs EXCEPT ![p] = <<>>]
                  /\ UNCHANGED requests
    /\ UNCHANGED <<config, client, registered, inputs, raw, cleaned>>

\* The caller cancels the task while its POST is pending.
Cancel(p) ==
    /\ pc[p] = "awaiting"
    /\ LET exc == ExceptClause([type |-> "CancelledError", status |-> 0,
                                text |-> ""])
       IN /\ pc' = [pc EXCEPT ![p] = "raised"]
          /\ session' = [session EXCEPT ![p] = SessionOnExit(exc)]
          /\ outcome' = [outcome EXCEPT
                           ![p] = [kind |-> "error", value |-> <<>>,
                                   exc |-> exc]]
          /\ embeddings' = [embeddings EXCEPT ![p] = <<>>]
    /\ UNCHANGED <<config, client, registered, inputs, requests, responses,
                   counter, summary, raw, cleaned>>

-----------------------------------------------------------------------------
(* Specification of the client *)

Init ==
    /\ config \in Configs
    /\ client = NoClient
    /\ registered = <<>>
    /\ pc = [p \in Tasks |-> "idle"]
    /\ inputs = [p \in Tasks |-> <<>>]
    /\ embeddings = [p \in Tasks |-> <<>>]
    /\ session = [p \in Tasks |-> "none"]
    /\ requests = [p \in Tasks |-> <<>>]
    /\ responses = [p \in Tasks |-> <<>>]
    /\ outcome = [p \in Tasks |-> NoOutcome]
    /\ counter = <<>>
    /\ summary = <<>>
    /\ raw = <<>>
    /\ cleaned = <<>>

Next ==
    \/ Construct
    \/ \E p \in Tasks, ins \in InputLists : Call(p, ins)
    \/ \E p \in Tasks, resp \in Responses : Receive(p, resp)
    \/ \E p \in Tasks : Cancel(p)

Spec == Init /\ [][Next]_vars

-----------------------------------------------------------------------------
(* Specification of the sanitizer alone *)

InitClean ==
    /\ config \in {cfg \in Configs : cfg.metrics_factory = "None"}
    /\ client = NewClient(config)
    /\ registered = Registered(config)
    /\ pc = [p \in Tasks |-> "idle"]
    /\ inputs = [p \in Tasks |-> <<>>]
    /\ embeddings = [p \in Tasks |-> <<>>]
    /\ session = [p \in Tasks |-> "none"]
    /\ requests = [p \in Tasks |-> <<>>]
    /\ responses = [p \in Tasks |-> <<>>]
    /\ outcome = [p \in Tasks |-> NoOutcome]
    /\ counter = <<>>
    /\ summary = <<>>
    /\ raw \in AllInputLists
    /\ cleaned = <<>>

Clean ==
    /\ raw # <<>>
    /\ cleaned = <<>>
    /\ cleaned' = CleanInputs(raw)
    /\ UNCHANGED <<config, client, registered, callVars, raw>>

NextClean == Clean

SpecClean == InitClean /\ [][NextClean]_vars

-----------------------------------------------------------------------------
(* Properties *)

\* A response the service call counts as a success: HTTP 200 whose JSON body
\* holds an `embedding` field.
Succeeded(resp) == resp.net = "ok" /\ resp.status = 200 /\ resp.has_embedding

Ended(p) == pc[p] \in {"returned", "raised"}

\* The vectors the service returned to task p, in the order of its requests.
Returned(p) == [i \in 1..Len(responses[p]) |-> responses[p][i].embedding]

\* The sanitized form of a text, stated character by character.
IsSanitized(text, prompt) ==
    IF text = <<>>
    THEN prompt = <<" ">>
    ELSE /\ Len(prompt) = Len(text)
         /\ \A k \in 1..Len(text) :
               prompt[k] = (IF text[k] = "\n" THEN " " ELSE text[k])

\* C1: when all N > 0 requests of a call succeed, the call returns exactly N
\* vectors, and the vector at position i is the embedding the service
\* returned for the request built from input i.
C1_OutputMatchesInputs ==
    \A p \in Tasks :
        ( /\ inputs[p] # <<>>
          /\ Len(responses[p]) = Len(inputs[p])
          /\ \A i \in 1..Len(responses[p]) : Succeeded(responses[p][i]) )
        => /\ pc[p] = "returned"
           /\ outcome[p].kind = "value"
           /\ Len(outcome[p].value) = Len(inputs[p])
           /\ Len(requests[p]) = Len(inputs[p])
           /\ \A i \in 1..Len(inputs[p]) :
                 /\ IsSanitized(inputs[p][i], requests[p][i].prompt)
                 /\ requests[p][i].model = client.model
                 /\ outcome[p].value[i] = responses[p][i].embedding

C1_Witness ==
    \E p \in Tasks :
        /\ pc[p] = "returned"
        /\ Len(inputs[p]) = 2
        /\ inputs[p][1] # inputs[p][2]
        /\ outcome[p].value = <<"v2", "v1">>

\* C2: a failed request aborts the call: it is the last request the call
\* issued, the call ends with an error, and the caller gets no vectors, the
\* ones collected before the failure included.
C2_FailureAbortsCall ==
    \A p \in Tasks :
        \A i \in 1..Len(responses[p]) :
            ~Succeeded(responses[p][i])
            => /\ i = Len(responses[p])
               /\ Len(requests[p]) = i
               /\ pc[p] = "raised"
               /\ outcome[p].kind = "error"
               /\ outcome[p].value = <<>>
               /\ embeddings[p] = <<>>

C2_Witness ==
    \E p, q \in Tasks :
        /\ pc[p] = "raised" /\ pc[q] = "raised"
        /\ Len(inputs[p]) = 2 /\ Len(responses[p]) = 1
        /\ ~Succeeded(responses[p][1])
        /\ Len(inputs[q]) = 2 /\ Len(responses[q]) = 2
        /\ Succeeded(responses[q][1]) /\ ~Succeeded(responses[q][2])

\* C3: within a call at most one request is outstanding, request i + 1 is
\* issued only once response i is in, and requests follow the input order.
C3_SequentialInOrder ==
    \A p \in Tasks :
        /\ Len(requests[p]) <= Len(responses[p]) + 1
        /\ Len(responses[p]) <= Len(requests[p])
        /\ Len(requests[p]) <= Len(inputs[p])
        /\ \A i \in 1..Len(requests[p]) :
              IsSanitized(inputs[p][i], requests[p][i].prompt)

C3_Witness ==
    \E p \in Tasks :
        /\ pc[p] = "awaiting"
        /\ Len(inputs[p]) = 2
        /\ inputs[p][1] # inputs[p][2]
        /\ Len(requests[p]) = 2
        /\ Len(responses[p]) = 1

\* C4: a call on an empty input list returns an empty list in one step that
\* opens no session, sends no request and emits no metric.
C4_EmptyInputShortCircuit ==
    [][ \A p \in Tasks :
          (pc[p] = "idle" /\ pc'[p] # "idle" /\ inputs'[p] = <<>>)
          => /\ pc'[p] = "returned"
             /\ outcome'[p] = [kind |-> "value", value |-> <<>>, exc |-> NoExc]
             /\ session[p] = "none" /\ session' = session
             /\ requests' = requests
             /\ counter' = counter
             /\ summary' = summary ]_vars

C4_Witness ==
    \E p \in Tasks :
        /\ pc[p] = "returned"
        /\ inputs[p] = <<>>
        /\ config.metrics_factory = "MetricsFactory"

\* The calls that completed successfully on a non-empty input list.
SuccessfulCalls == {p \in Tasks : pc[p] = "returned" /\ inputs[p] # <<>>}

\* C5: with metrics enabled, the counter increments and the latency
\* observations are one per successful non-empty call, the increment being
\* the call's N, all with the configured labels; with metrics disabled there
\* are none.
C5_MetricsPerSuccessfulCall ==
    IF config.metrics_factory = "MetricsFactory"
    THEN /\ Len(counter) = Cardinality(SuccessfulCalls)
         /\ Len(summary) = Cardinality(SuccessfulCalls)
         /\ \A i \in 1..Len(counter) :
               /\ Cardinality({j \in 1..Len(counter) :
                                  counter[j].value = counter[i].value})
                    = Cardinality({p \in SuccessfulCalls :
                                      Len(inputs[p]) = counter[i].value})
               /\ counter[i].labels
                    = (IF config.has_labels
                       THEN config.user_metrics_labels ELSE {})
         /\ \A i \in 1..Len(summary) :
               summary[i].labels
                 = (IF config.has_labels
                    THEN config.user_metrics_labels ELSE {})
    ELSE counter = <<>> /\ summary = <<>>

C5_Witness ==
    \E p, q \in Tasks :
        /\ config.metrics_factory = "MetricsFactory"
        /\ config.has_labels
        /\ pc[p] = "returned" /\ Len(inputs[p]) = 2
        /\ pc[q] = "raised" /\ Len(responses[q]) = 2
        /\ Len(counter) = 1

\* C6: the sanitized list has one prompt per input; each prompt is its input
\* with every newline replaced by one space, or one space for an empty input,
\* and no prompt is empty.
C6_Sanitization ==
    cleaned # <<>>
    => /\ Len(cleaned) = Len(raw)
       /\ \A i \in 1..Len(raw) :
             /\ IsSanitized(raw[i], cleaned[i])
             /\ cleaned[i] # <<>>
             /\ \A k \in 1..Len(cleaned[i]) : cleaned[i][k] # "\n"

C6_Witness ==
    /\ Len(cleaned) = 2
    /\ raw[1] = <<>>
    /\ raw[2] = <<"\n", "\n">>
    /\ cleaned[2] = <<" ", " ">>

\* C7: a non-empty call holds one open session while it runs, and the
\* session is closed on every way out of the call: all requests succeeded, a
\* request failed, or the call was cancelled while a request was pending.
C7_SessionScopedToCall ==
    \A p \in Tasks :
        /\ session[p] = "open" <=> pc[p] = "awaiting"
        /\ (Ended(p) /\ inputs[p] # <<>>) => session[p] = "closed"
        /\ pc[p] = "idle" => session[p] = "none"

C7_Witness ==
    \E p, q \in Tasks :
        /\ pc[p] = "raised" /\ outcome[p].exc.type = "CancelledError"
        /\ Len(responses[p]) = 1
        /\ pc[q] = "raised" /\ outcome[q].exc.type = "RuntimeError"
        /\ session[p] = "closed" /\ session[q] = "closed"

\* The description str(e) of the failure a response stands for.
CauseOf(resp) ==
    IF resp.net = "connect_error" THEN [status |-> 0, text |-> "Cannot connect to host"]
    ELSE IF resp.net = "timeout" THEN [status |-> 0, text |-> ""]
    ELSE IF resp.status # 200 THEN [status |-> resp.status, text |-> resp.body]
    ELSE [status |-> 0, text |-> "'embedding'"]

\* C8: every failure met while contacting the service (connection failure,
\* timeout, non-200 status, body without `embedding`) reaches the caller as a
\* RuntimeError carrying the description of its cause.
C8_UniformError ==
    \A p \in Tasks :
        \A i \in 1..Len(responses[p]) :
            ~Succeeded(responses[p][i])
            => /\ outcome[p].kind = "error"
               /\ outcome[p].exc.type = "RuntimeError"
               /\ outcome[p].exc.status = CauseOf(responses[p][i]).status
               /\ outcome[p].exc.text = CauseOf(responses[p][i]).text

C8_Witness ==
    \E p, q \in Tasks :
        /\ pc[p] = "raised" /\ pc[q] = "raised"
        /\ Len(responses[p]) = 2 /\ Len(responses[q]) = 1
        /\ outcome[p].exc.type = "RuntimeError"
        /\ outcome[q].exc.type = "RuntimeError"
        /\ responses[p][Len(responses[p])].net = "timeout"
        /\ responses[q][Len(responses[q])].status = 200
        /\ ~responses[q][Len(responses[q])].has_embedding

\* C9: the client object is what construction made of the configuration for
\* as long as calls run, and whatever the interleaving of two calls, the
\* vectors a call has collected, and the ones it returns, are exactly those
\* the service returned to its own requests, in its own input order.
C9_ConcurrentCallsIndependent ==
    /\ client.state = "ready"
       => /\ client.model = (IF config.model = "unset"
                             THEN "nomic-embed-text" ELSE config.model)
          /\ client.collect_metrics = (config.metrics_factory # "None")
          /\ registered = <<>> <=> config.metrics_factory = "None"
    /\ \A p \in Tasks :
          /\ pc[p] = "awaiting" => embeddings[p] = Returned(p)
          /\ (pc[p] = "returned" /\ inputs[p] # <<>>)
             => outcome[p].value = Returned(p)
          /\ \A i \in 1..Len(requests[p]) :
                IsSanitized(inputs[p][i], requests[p][i].prompt)

C9_Witness ==
    /\ \A p \in Tasks : pc[p] = "awaiting" /\ Len(inputs[p]) = 2
    /\ inputs["ingest"] # inputs["search"]
    /\ embeddings["ingest"] = <<"v1">>
    /\ embeddings["search"] = <<"v2">>

\* C10: a metrics_factory that is present but no MetricsFactory makes
\* construction fail with a TypeError, with nothing registered and no request
\* made; without a metrics_factory construction succeeds and metrics stay
\* disabled.
C10_ConstructionTypeCheck ==
    /\ config.metrics_factory \notin {"None", "MetricsFactory"}
       => /\ client.state \in {"new", "TypeError"}
          /\ registered = <<>>
          /\ \A p \in Tasks : pc[p] = "idle" /\ requests[p] = <<>>
    /\ config.metrics_factory = "None"
       => /\ client.state \in {"new", "ready"}
          /\ ~client.collect_metrics
          /\ registered = <<>>
          /\ counter = <<>> /\ summary = <<>>

C10_Witness ==
    /\ config.metrics_factory = "NotAFactory"
    /\ client.state = "TypeError"

====
